---- MODULE Spec2Model ----
(***************************************************************************)
(* Session-bridging authenticated proxy (webui/bff/app): the signed cookie *)
(* codec (security.py), the AuthGuard dependency (dependencies.py), the    *)
(* upstream client (gateway_client.py) and the route handlers (auth.py,    *)
(* admin.py).  A handler runs in two steps, split at its only suspension   *)
(* point, the awaited upstream call.                                       *)
(***************************************************************************)
EXTENDS Integers, Sequences, FiniteSets, TLC

VARIABLES settings, now, jar, known, req, calls, resp, codec

vars == <<settings, now, jar, known, req, calls, resp, codec>>

\* ------------------------------------------------------------------ bounds
\* The clock runs 0..MaxTime (seconds).
MaxTime == 2

\* ------------------------------------------------------------- JSON values
\* A JSON scalar is a record [k, v]; Missing stands for "no such key".
JStr(s) == [k |-> "str", v |-> s]
JNum(n) == [k |-> "num", v |-> n]
JNull == [k |-> "null", v |-> "null"]
Missing == [k |-> "missing", v |-> ""]

\* Python truthiness of a JSON scalar.
ScalarTruthy(t) ==
    CASE t.k = "str" -> t.v # ""
      [] t.k = "num" -> t.v # "0"
      [] OTHER -> FALSE

\* Token values the upstream may put in the "token" field.
TokenValues == {JStr("jwtA"), JStr("jwtB"), JStr(""), JNull}

\* Values of an upstream "detail" field.
DetailValues == {JStr("upstream detail")}

\* A JSON document: k is its kind; token/detail are the two fields the BFF
\* looks at when it is an object; extra stands for everything else in it
\* (the other fields of an object, the items of a list, the digits of a
\* number, the characters of a string).
Doc(k, token, detail, extra) ==
    [k |-> k, token |-> token, detail |-> detail, extra |-> extra]
NoneBody == Doc("none", Missing, Missing, "")
Obj(token, detail, extra) == Doc("obj", token, detail, extra)

\* Raw upstream bodies as they arrive on the wire.
RawBodies ==
    { Doc("empty", Missing, Missing, ""),
      Doc("invalid", Missing, Missing, "<html>"),
      Doc("null", Missing, Missing, "null"),
      Obj(Missing, Missing, ""),
      Obj(Missing, Missing, "data"),
      Obj(Missing, JStr("upstream detail"), ""),
      Doc("list", Missing, Missing, "[]"),
      Doc("list", Missing, Missing, "[token]"),
      Doc("num", Missing, Missing, "5") }
    \cup { Obj(t, Missing, "") : t \in TokenValues }

\* Upstream status codes.
StatusCodes == {200, 401, 404}

\* ---------------------------------------------------------------- settings
DefaultSecret == "change-this-to-a-secure-random-key-in-production"
CookieNames == {"admin_token", "session"}
CookieMaxAges == {0, 1}

Settings ==
    [gateway_base_url : {"http://localhost:8080"},
     secret_key : {DefaultSecret},
     cookie_name : CookieNames,
     cookie_max_age : CookieMaxAges]

\* ------------------------------------------------- signed values (cookies)
\* JSON text of a scalar, as a sequence of lexical pieces, and its parse.
Dumps(t) ==
    CASE t.k = "str" -> <<"\"", t.v, "\"">>
      [] t.k = "num" -> <<t.v>>
      [] OTHER -> <<"null">>

BadJson == [k |-> "bad", v |-> ""]

Loads(text) ==
    IF Len(text) = 3 /\ text[1] = "\"" /\ text[3] = "\"" THEN JStr(text[2])
    ELSE IF text = <<"null">> THEN JNull
    ELSE IF Len(text) = 1 /\ text[1] \in {"0", "5"} THEN JNum(text[1])
    ELSE BadJson

\* The integrity tag: a keyed hash of the text "payload.timestamp"; the key
\* is derived from the secret and the salt.  Two tags are equal exactly
\* when key, salt and signed text are equal.
Mac(secret, salt, payload, ts) ==
    [key |-> secret, salt |-> salt, payload |-> payload, ts |-> ts]
NoMac == Mac("", "", <<>>, 0)

\* The tag travels as unpadded base64 text.  Its last character carries bits
\* that are not part of the tag (slack); the encoder writes them as 0 and
\* the decoder drops them.
TagSlack == {0, 1}
base64_encode(mac) == [mac |-> mac, slack |-> 0]
base64_decode(text) == text.mac

\* A cookie value: k = "signed" for a three-part value payload.ts.sig,
\* "empty" for the empty string, "garbage" for a string without separators,
\* "none" when the cookie is absent.
Value(k, payload, ts, sig) ==
    [k |-> k, payload |-> payload, ts |-> ts, sig |-> sig]
NoValue == Value("none", <<>>, 0, base64_encode(NoMac))
EmptyValue == Value("empty", <<>>, 0, base64_encode(NoMac))
GarbageValue == Value("garbage", <<"garbage">>, 0, base64_encode(NoMac))

Salt == "admin-cookie"

\* URLSafeTimedSerializer(secret).dumps(token, salt) at time t.
Serialize(secret, salt, token, t) ==
    Value("signed", Dumps(token), t,
          base64_encode(Mac(secret, salt, Dumps(token), t)))

\* sign_token signing under another salt than verify_token's.
sign_token_salted(token) ==
    Serialize(settings.secret_key, "cookie", token, now)

sign_token(token) == Serialize(settings.secret_key, Salt, token, now)

Loaded(r, token) == [r |-> r, token |-> token]

\* loads rejecting a value as expired from age = max_age on (>= for >).
Deserialize_early(secret, salt, signed, max_age, t) ==
    IF signed.k # "signed" THEN Loaded("BadSignature", Missing)
    ELSE IF base64_decode(signed.sig) # Mac(secret, salt, signed.payload, signed.ts)
    THEN Loaded("BadSignature", Missing)
    ELSE IF t - signed.ts >= max_age \/ t - signed.ts < 0
    THEN Loaded("SignatureExpired", Missing)
    ELSE IF Loads(signed.payload) = BadJson THEN Loaded("BadPayload", Missing)
    ELSE Loaded("ok", Loads(signed.payload))

\* loads comparing the tag with one computed over the timestamp alone, so
\* that the payload part is not covered by it.
Deserialize_uncovered(secret, salt, signed, max_age, t) ==
    IF signed.k # "signed" THEN Loaded("BadSignature", Missing)
    ELSE IF base64_decode(signed.sig).key # secret
            \/ base64_decode(signed.sig).salt # salt
            \/ base64_decode(signed.sig).ts # signed.ts
    THEN Loaded("BadSignature", Missing)
    ELSE IF t - signed.ts > max_age \/ t - signed.ts < 0
    THEN Loaded("SignatureExpired", Missing)
    ELSE IF Loads(signed.payload) = BadJson THEN Loaded("BadPayload", Missing)
    ELSE Loaded("ok", Loads(signed.payload))

\* loads called without a max_age: no value ever expires.
Deserialize_unexpiring(secret, salt, signed, max_age, t) ==
    IF signed.k # "signed" THEN Loaded("BadSignature", Missing)
    ELSE IF base64_decode(signed.sig) # Mac(secret, salt, signed.payload, signed.ts)
    THEN Loaded("BadSignature", Missing)
    ELSE IF Loads(signed.payload) = BadJson THEN Loaded("BadPayload", Missing)
    ELSE Loaded("ok", Loads(signed.payload))

\* loads that does not compare the tag at all.
Deserialize_unverified(secret, salt, signed, max_age, t) ==
    IF signed.k # "signed" THEN Loaded("BadSignature", Missing)
    ELSE IF t - signed.ts > max_age \/ t - signed.ts < 0
    THEN Loaded("SignatureExpired", Missing)
    ELSE IF Loads(signed.payload) = BadJson THEN Loaded("BadPayload", Missing)
    ELSE Loaded("ok", Loads(signed.payload))

\* loads deriving its key from the secret alone: the salt is not part of
\* what the tag is compared with.
Deserialize_unscoped(secret, salt, signed, max_age, t) ==
    IF signed.k # "signed" THEN Loaded("BadSignature", Missing)
    ELSE IF base64_decode(signed.sig).key # secret
            \/ base64_decode(signed.sig).payload # signed.payload
            \/ base64_decode(signed.sig).ts # signed.ts
    THEN Loaded("BadSignature", Missing)
    ELSE IF t - signed.ts > max_age \/ t - signed.ts < 0
    THEN Loaded("SignatureExpired", Missing)
    ELSE IF Loads(signed.payload) = BadJson THEN Loaded("BadPayload", Missing)
    ELSE Loaded("ok", Loads(signed.payload))

\* URLSafeTimedSerializer(secret).loads(signed, salt, max_age) at time t:
\* "BadSignature", "SignatureExpired", "BadPayload" or "ok" with the payload.
Deserialize(secret, salt, signed, max_age, t) ==
    IF signed.k # "signed" THEN Loaded("BadSignature", Missing)
    ELSE IF base64_decode(signed.sig) # Mac(secret, salt, signed.payload, signed.ts)
    THEN Loaded("BadSignature", Missing)
    ELSE IF t - signed.ts > max_age \/ t - signed.ts < 0
    THEN Loaded("SignatureExpired", Missing)
    ELSE IF Loads(signed.payload) = BadJson THEN Loaded("BadPayload", Missing)
    ELSE Loaded("ok", Loads(signed.payload))

\* verify_token passing no max_age: the age of the value is never checked.
verify_token_ageless(signed_token, max_age) ==
    LET l == Deserialize(settings.secret_key, Salt, signed_token,
                         MaxTime + 1, signed_token.ts)
    IN  IF l.r = "ok" THEN [r |-> "ok", token |-> l.token]
        ELSE [r |-> "none", token |-> Missing]

\* verify_token: the payload, None for BadSignature / SignatureExpired; any
\* other exception propagates.
Verified(r, token) == [r |-> r, token |-> token]
verify_token(signed_token, max_age) ==
    LET l == Deserialize(settings.secret_key, Salt, signed_token, max_age, now)
    IN  CASE l.r = "ok" -> Verified("ok", l.token)
          [] l.r \in {"BadSignature", "SignatureExpired"} -> Verified("none", Missing)
          [] OTHER -> Verified("raise", Missing)

\* ------------------------------------------------------------ the client
\* What a client that does not hold the secret can send as a cookie value,
\* given the value v it was last issued: v itself, v with one part altered,
\* values signed under a key of its own, the empty string and garbage.
AttackerKey == "attacker-key"
PayloadTexts == { Dumps(t) : t \in TokenValues }

AlterPayload(v) == { [v EXCEPT !.payload = p] : p \in PayloadTexts \ {v.payload} }
AlterTimestamp(v) == { [v EXCEPT !.ts = t] : t \in (0..MaxTime) \ {v.ts} }
AlterTag(v) ==
    { [v EXCEPT !.sig.slack = b] : b \in TagSlack \ {v.sig.slack} }
    \cup { [v EXCEPT !.sig = base64_encode(Mac(AttackerKey, Salt, v.payload, v.ts))] }
Altered(v) == AlterPayload(v) \cup AlterTimestamp(v) \cup AlterTag(v)

ClientValues(v) ==
    {EmptyValue, GarbageValue, Serialize(AttackerKey, Salt, JStr("jwtB"), now)}
    \cup (IF v.k = "signed" THEN {v} \cup Altered(v) ELSE {})

\* The cookie header of a request: at most one cookie.
Cookie(name, value) == [name |-> name, value |-> value]
NoCookie == Cookie("", NoValue)
RequestCookies(v) ==
    {NoCookie}
    \cup { Cookie("admin_token", x) : x \in ClientValues(v) }
    \cup { Cookie(n, v) : n \in IF v.k = "signed" THEN CookieNames ELSE {} }

\* The value the request carries under a cookie name (None when absent).
CookieParam(cookie, name) == IF cookie.name = name THEN cookie.value ELSE NoValue

\* -------------------------------------------------------- upstream client
\* Python truthiness of a parsed body, `"token" in data`, and the outcome of
\* response.json(): empty and malformed bodies raise and become None, the
\* JSON literal null parses to None.
Truthy(data) ==
    CASE data.k = "obj" ->
            data.token # Missing \/ data.detail # Missing \/ data.extra # ""
      [] data.k = "list" -> data.extra # "[]"
      [] data.k = "num" -> data.extra # "0"
      [] data.k = "str" -> data.extra # ""
      [] OTHER -> FALSE

HasToken(data) ==
    CASE data.k = "obj" -> IF data.token # Missing THEN "yes" ELSE "no"
      [] data.k = "list" -> IF data.extra = "[token]" THEN "yes" ELSE "no"
      [] data.k = "str" -> IF data.extra = "token" THEN "yes" ELSE "no"
      [] OTHER -> "TypeError"

ParseJson(raw) ==
    IF raw.k \in {"empty", "invalid", "null"} THEN NoneBody ELSE raw

\* What the awaited client.request produces: a reply, or an exception
\* (httpx.ReadTimeout after 30 s, httpx.ConnectError).
Reply(exc, status, body) == [exc |-> exc, status |-> status, body |-> body]
NoReply == Reply("", 0, NoneBody)
Replies == { Reply("", st, b) : st \in StatusCodes, b \in RawBodies }
Failures == { Reply(e, 0, NoneBody) : e \in {"ReadTimeout", "ConnectError"} }

NoCredentials == [email |-> "", password |-> ""]
Credentials ==
    { [email |-> "admin@test.local", password |-> p] : p \in {"correct", "wrong"} }

NoParams == [given |-> FALSE, page |-> 0, page_size |-> 0]
Params(page, page_size) == [given |-> TRUE, page |-> page, page_size |-> page_size]

\* gateway_request never adding the Authorization header.
gateway_request_anonymous(method, path, jwt_token, json_data, params) ==
    [method |-> method,
     url |-> <<settings.gateway_base_url, path>>,
     authorization |-> <<>>,
     json |-> json_data,
     params |-> params,
     timeout |-> 30]

\* gateway_request up to its await: the outbound request it builds.
gateway_request(method, path, jwt_token, json_data, params) ==
    [method |-> method,
     url |-> <<settings.gateway_base_url, path>>,
     authorization |-> IF ScalarTruthy(jwt_token)
                       THEN <<"Bearer", jwt_token.v>> ELSE <<>>,
     json |-> json_data,
     params |-> params,
     timeout |-> 30]

\* gateway_request after its await: (status_code, response_data), or the
\* exception of client.request, which it does not catch.
Result(exc, status_code, data) == [exc |-> exc, status_code |-> status_code, data |-> data]
\* gateway_request without the try/except around response.json(): a body
\* that does not parse makes the call raise.
gateway_result_strict(reply) ==
    IF reply.exc # "" THEN Result(reply.exc, 0, NoneBody)
    ELSE IF reply.body.k \in {"empty", "invalid"}
    THEN Result("JSONDecodeError", 0, NoneBody)
    ELSE Result("", reply.status, ParseJson(reply.body))

gateway_result(reply) ==
    IF reply.exc # "" THEN Result(reply.exc, 0, NoneBody)
    ELSE Result("", reply.status, ParseJson(reply.body))

\* --------------------------------------------------------------- responses
NoSetCookie ==
    [op |-> "none", key |-> "", value |-> NoValue, max_age |-> 0,
     httponly |-> FALSE, secure |-> FALSE, samesite |-> ""]
set_cookie(key, value, max_age, httponly, secure, samesite) ==
    [op |-> "set", key |-> key, value |-> value, max_age |-> max_age,
     httponly |-> httponly, secure |-> secure, samesite |-> samesite]
delete_cookie(key, httponly, secure, samesite) ==
    [op |-> "delete", key |-> key, value |-> EmptyValue, max_age |-> 0,
     httponly |-> httponly, secure |-> secure, samesite |-> samesite]

Response(status, detail, body, cookie, exc) ==
    [status |-> status, detail |-> detail, body |-> body,
     set_cookie |-> cookie, exc |-> exc]
NoResponse == Response(0, Missing, NoneBody, NoSetCookie, "")
\* raise HTTPException(status_code, detail): answered {"detail": detail}.
HTTPException(status_code, detail) ==
    Response(status_code, detail, NoneBody, NoSetCookie, "")
\* A query parameter violating its Query(...) constraint: 422.
ValidationError == Response(422, JStr("validation error"), NoneBody, NoSetCookie, "")
\* An exception no handler catches: 500 "Internal Server Error".
Unhandled(exc) == Response(500, Missing, NoneBody, NoSetCookie, exc)
Returned(body, cookie) == Response(200, Missing, body, cookie, "")

SuccessBody == Obj(Missing, Missing, "success:true")

\* --------------------------------------------------------------- AuthGuard
\* get_current_admin_token without its `if not admin_token` test: an absent
\* cookie goes to verify_token like any other value.
get_current_admin_token_unchecked(cookie) ==
    LET jwt_token == verify_token(CookieParam(cookie, "admin_token"),
                                  settings.cookie_max_age) IN
    IF jwt_token.r # "ok" \/ ~ScalarTruthy(jwt_token.token)
    THEN [r |-> "rejected", token |-> Missing,
          response |-> HTTPException(401, JStr("Invalid or expired token"))]
    ELSE [r |-> "ok", token |-> jwt_token.token, response |-> NoResponse]

Guard(r, token, response) == [r |-> r, token |-> token, response |-> response]
get_current_admin_token(cookie) ==
    LET admin_token == CookieParam(cookie, "admin_token") IN
    IF admin_token.k \in {"none", "empty"}
    THEN Guard("rejected", Missing, HTTPException(401, JStr("Not authenticated")))
    ELSE LET jwt_token == verify_token(admin_token, settings.cookie_max_age) IN
         IF jwt_token.r = "raise"
         THEN Guard("rejected", Missing, Unhandled("BadPayload"))
         ELSE IF jwt_token.r = "none" \/ ~ScalarTruthy(jwt_token.token)
         THEN Guard("rejected", Missing, HTTPException(401, JStr("Invalid or expired token")))
         ELSE Guard("ok", jwt_token.token, NoResponse)

\* ---------------------------------------------------------- route handlers
\* login returning the upstream's token in its body next to the cookie.
login_result_echo(result) ==
    IF result.exc # "" THEN Unhandled(result.exc)
    ELSE IF result.status_code # 200 \/ ~Truthy(result.data)
    THEN HTTPException(401, JStr("Invalid credentials"))
    ELSE IF HasToken(result.data) = "TypeError" THEN Unhandled("TypeError")
    ELSE IF HasToken(result.data) = "no"
    THEN HTTPException(401, JStr("Invalid credentials"))
    ELSE IF result.data.k # "obj" THEN Unhandled("TypeError")
    ELSE Returned(Obj(result.data.token, Missing, "success:true"),
                  set_cookie(settings.cookie_name, sign_token(result.data.token),
                             settings.cookie_max_age, TRUE, FALSE, "strict"))

\* login after the upstream call (auth.py 41-63).
login_result(result) ==
    IF result.exc # "" THEN Unhandled(result.exc)
    ELSE IF result.status_code # 200 \/ ~Truthy(result.data)
    THEN HTTPException(401, JStr("Invalid credentials"))
    ELSE IF HasToken(result.data) = "TypeError" THEN Unhandled("TypeError")
    ELSE IF HasToken(result.data) = "no"
    THEN HTTPException(401, JStr("Invalid credentials"))
    ELSE IF result.data.k # "obj" THEN Unhandled("TypeError")
    ELSE Returned(SuccessBody,
                  set_cookie(settings.cookie_name, sign_token(result.data.token),
                             settings.cookie_max_age, TRUE, FALSE, "strict"))

\* The proxy handlers answering a 200 with their own acknowledgment instead
\* of the upstream's body.
proxy_result_ack(result, fallback) ==
    IF result.exc # "" THEN Unhandled(result.exc)
    ELSE IF result.status_code # 200
    THEN HTTPException(result.status_code, JStr(fallback))
    ELSE Returned(SuccessBody, NoSetCookie)

\* The proxy handlers clearing the session cookie when the upstream
\* answers 401.
proxy_result_clearing(result, fallback) ==
    IF result.exc # "" THEN Unhandled(result.exc)
    ELSE IF result.status_code # 200
    THEN LET cookie == IF result.status_code = 401
                       THEN delete_cookie(settings.cookie_name, TRUE, FALSE, "strict")
                       ELSE NoSetCookie
             detail == IF Truthy(result.data) /\ result.data.k = "obj"
                          /\ result.data.detail # Missing
                       THEN result.data.detail ELSE JStr(fallback)
         IN  Response(result.status_code, detail, NoneBody, cookie, "")
    ELSE Returned(result.data, NoSetCookie)

\* me / list_api_keys / list_models / get_billing after the upstream call.
proxy_result(result, fallback) ==
    IF result.exc # "" THEN Unhandled(result.exc)
    ELSE IF result.status_code # 200
    THEN IF Truthy(result.data)
         THEN IF result.data.k # "obj" THEN Unhandled("AttributeError")
              ELSE HTTPException(result.status_code,
                                 IF result.data.detail # Missing
                                 THEN result.data.detail ELSE JStr(fallback))
         ELSE HTTPException(result.status_code, JStr(fallback))
    ELSE Returned(result.data, NoSetCookie)

Fallback(route) ==
    CASE route = "me" -> "Failed to get user info"
      [] route = "list_api_keys" -> "Failed to list API keys"
      [] route = "list_models" -> "Failed to list models"
      [] OTHER -> "Failed to get billing info"

\* Query parameters: omitted or an integer.
Omitted == [given |-> FALSE, n |-> 0]
Given(n) == [given |-> TRUE, n |-> n]
Query(q, default) == IF q.given THEN q.n ELSE default
\* The (page, page_size) pairs requests are sent with.
PageQueries ==
    { <<Omitted, Omitted>>, <<Given(2), Given(100)>>, <<Given(0), Omitted>>,
      <<Omitted, Given(0)>>, <<Omitted, Given(101)>>, <<Given(0), Given(101)>> }
\* page: Query(1, ge=1); page_size: Query(20, ge=1, le=100).
ValidPage(q) == Query(q, 1) >= 1
\* page_size declared without its upper limit: Query(20, ge=1).
ValidPageSize_unlimited(q) == Query(q, 20) >= 1

ValidPageSize(q) == Query(q, 20) >= 1 /\ Query(q, 20) <= 100

\* ------------------------------------------------------------------ state
Slots == {1, 2}
ProtectedRoutes == {"me", "list_api_keys", "list_models", "get_billing"}
Paginated == {"list_api_keys", "list_models"}

\* A request being served: its inputs (route, cookie, body, query), the time
\* it arrived at, the AuthGuard's token and the upstream's reply.
Request(pc, route, cookie, creds, page, page_size, token, reply) ==
    [pc |-> pc, route |-> route, cookie |-> cookie, creds |-> creds,
     page |-> page, page_size |-> page_size, token |-> token, reply |-> reply,
     at |-> now]
IdleRequest ==
    [Request("idle", "", NoCookie, NoCredentials, Omitted, Omitted, Missing, NoReply)
        EXCEPT !.at = 0]

\* A value under test by the codec alone: the token signed, the signed
\* value, the value presented for verification, and the last verification.
Codec(phase, token, signed, presented, at, result) ==
    [phase |-> phase, token |-> token, signed |-> signed,
     presented |-> presented, at |-> at, result |-> result]
IdleCodec == Codec("start", Missing, NoValue, NoValue, 0, Verified("none", Missing))

Init ==
    /\ settings \in Settings
    /\ now = 0
    /\ jar = NoCookie
    /\ known = NoValue
    /\ req = [s \in Slots |-> IdleRequest]
    /\ calls = [s \in Slots |-> <<>>]
    /\ resp = [s \in Slots |-> NoResponse]
    /\ codec = IdleCodec

\* The browser applies the Set-Cookie header of a response to its jar.
ApplyCookie(j, c) ==
    CASE c.op = "set" -> Cookie(c.key, c.value)
      [] c.op = "delete" -> IF j.name = c.key THEN NoCookie ELSE j
      [] OTHER -> j

Free(s) == req[s].pc = "idle"
Awaiting(s, route) == req[s].pc = "await" /\ req[s].route = route

\* A handler keeping its response in a variable shared by all requests:
\* whatever it answers becomes the response of every request in flight.
Answer_shared(s, r, response) ==
    /\ req' = [req EXCEPT ![s] = r]
    /\ resp' = [t \in Slots |-> response]
    /\ UNCHANGED <<jar, known>>

\* A handler answers: the response is recorded.
Answer(s, r, response) ==
    /\ req' = [req EXCEPT ![s] = r]
    /\ resp' = [resp EXCEPT ![s] = response]
    /\ UNCHANGED <<jar, known>>

\* The response reaches the client, whose browser applies its Set-Cookie
\* header; the request is over.
Deliver(s) ==
    /\ req[s].pc = "done"
    /\ jar' = ApplyCookie(jar, resp[s].set_cookie)
    /\ known' = IF resp[s].set_cookie.op = "set"
                THEN resp[s].set_cookie.value ELSE known
    /\ req' = [req EXCEPT ![s] = IdleRequest]
    /\ resp' = [resp EXCEPT ![s] = NoResponse]
    /\ calls' = [calls EXCEPT ![s] = <<>>]
    /\ UNCHANGED <<settings, now, codec>>

\* A handler suspends at `await client.request(...)`.
Suspend(s, r, call) ==
    /\ req' = [req EXCEPT ![s] = r]
    /\ calls' = [calls EXCEPT ![s] = <<call>>]
    /\ resp' = [resp EXCEPT ![s] = NoResponse]
    /\ UNCHANGED <<jar, known>>

\* POST /auth/login up to the upstream call.
login_call(s) ==
    /\ Free(s)
    /\ \E creds \in Credentials, cookie \in {NoCookie, jar} :
          Suspend(s, Request("await", "login", cookie, creds, Omitted, Omitted,
                             Missing, NoReply),
                  gateway_request("POST", "/admin/login", Missing, creds, NoParams))
    /\ UNCHANGED <<settings, now, codec>>

\* POST /auth/login from the upstream's reply to the response.
login_return(s) ==
    /\ Awaiting(s, "login")
    /\ \E reply \in Replies \cup Failures :
          Answer(s, [req[s] EXCEPT !.pc = "done", !.reply = reply],
                 login_result(gateway_result(reply)))
    /\ UNCHANGED <<settings, now, calls, codec>>

\* logout placed behind the AuthGuard: without a valid cookie it answers
\* the guard's 401 and clears nothing.
logout_guarded(s) ==
    /\ Free(s)
    /\ \E cookie \in RequestCookies(known) :
          LET guard == get_current_admin_token(cookie) IN
          Answer(s, Request("done", "logout", cookie, NoCredentials, Omitted,
                            Omitted, Missing, NoReply),
                 IF guard.r = "ok"
                 THEN Returned(SuccessBody,
                               delete_cookie(settings.cookie_name, TRUE, FALSE, "strict"))
                 ELSE guard.response)
    /\ calls' = [calls EXCEPT ![s] = <<>>]
    /\ UNCHANGED <<settings, now, codec>>

\* POST /auth/logout.
logout(s) ==
    /\ Free(s)
    /\ \E cookie \in RequestCookies(known) :
          Answer(s, Request("done", "logout", cookie, NoCredentials, Omitted,
                            Omitted, Missing, NoReply),
                 Returned(SuccessBody,
                          delete_cookie(settings.cookie_name, TRUE, FALSE, "strict")))
    /\ calls' = [calls EXCEPT ![s] = <<>>]
    /\ UNCHANGED <<settings, now, codec>>

\* A protected route up to the upstream call: the AuthGuard dependency runs
\* first, then the query parameters are validated, then the handler builds
\* the upstream request.
protected_call(s, route, path, cookie, page, page_size) ==
    LET guard == get_current_admin_token(cookie)
        r(pc) == Request(pc, route, cookie, NoCredentials, page, page_size,
                         guard.token, NoReply)
        params == IF route \in Paginated
                  THEN Params(Query(page, 1), Query(page_size, 20)) ELSE NoParams
    IN  /\ Free(s)
        /\ IF guard.r # "ok"
           THEN Answer(s, r("done"), guard.response)
                /\ calls' = [calls EXCEPT ![s] = <<>>]
           ELSE IF route \in Paginated /\ ~(ValidPage(page) /\ ValidPageSize(page_size))
           THEN Answer(s, r("done"), ValidationError)
                /\ calls' = [calls EXCEPT ![s] = <<>>]
           ELSE Suspend(s, r("await"),
                        gateway_request("GET", path, guard.token, NoCredentials, params))
        /\ UNCHANGED <<settings, now, codec>>

\* A protected route that repeats its upstream call once when the reply is
\* a failure or not a 200.
protected_return_retry(s, route) ==
    /\ Awaiting(s, route)
    /\ \E reply \in Replies \cup Failures :
          /\ Answer(s, [req[s] EXCEPT !.pc = "done", !.reply = reply],
                    proxy_result(gateway_result(reply), Fallback(route)))
          /\ calls' = [calls EXCEPT ![s] =
                          IF reply.exc # "" \/ reply.status # 200
                          THEN calls[s] \o calls[s] ELSE calls[s]]
    /\ UNCHANGED <<settings, now, codec>>

\* A protected route from the upstream's reply to the response.
protected_return(s, route) ==
    /\ Awaiting(s, route)
    /\ \E reply \in Replies \cup Failures :
          Answer(s, [req[s] EXCEPT !.pc = "done", !.reply = reply],
                 proxy_result(gateway_result(reply), Fallback(route)))
    /\ UNCHANGED <<settings, now, calls, codec>>

me_call(s) ==
    \E cookie \in RequestCookies(known) :
        protected_call(s, "me", "/admin/me", cookie, Omitted, Omitted)
me_return(s) == protected_return(s, "me")

list_api_keys_call(s) ==
    \E cookie \in RequestCookies(known), q \in PageQueries :
        protected_call(s, "list_api_keys", "/admin/keys", cookie, q[1], q[2])
list_api_keys_return(s) == protected_return(s, "list_api_keys")

\* list_models proxying to the endpoint of list_api_keys.
list_models_call_keys(s) ==
    \E cookie \in RequestCookies(known), q \in PageQueries :
        protected_call(s, "list_models", "/admin/keys", cookie, q[1], q[2])

list_models_call(s) ==
    \E cookie \in RequestCookies(known), q \in PageQueries :
        protected_call(s, "list_models", "/admin/models", cookie, q[1], q[2])
list_models_return(s) == protected_return(s, "list_models")

get_billing_call(s) ==
    \E cookie \in RequestCookies(known) :
        protected_call(s, "get_billing", "/admin/billing", cookie, Omitted, Omitted)
get_billing_return(s) == protected_return(s, "get_billing")

\* One second passes.
Tick ==
    /\ now < MaxTime
    /\ now' = now + 1
    /\ UNCHANGED <<settings, jar, known, req, calls, resp, codec>>

\* Requests are served one at a time (slot 1).
Next ==
    \/ login_call(1)
    \/ login_return(1)
    \/ logout(1)
    \/ me_call(1)
    \/ me_return(1)
    \/ list_api_keys_call(1)
    \/ list_api_keys_return(1)
    \/ list_models_call(1)
    \/ list_models_return(1)
    \/ get_billing_call(1)
    \/ get_billing_return(1)
    \/ Deliver(1)
    \/ Tick

Spec == Init /\ [][Next]_vars

TypeOK ==
    /\ settings \in Settings
    /\ now \in 0..MaxTime
    /\ \A s \in Slots : req[s].pc \in {"idle", "await", "done"}

\* ---------------------------------------------------- deployment profiles
\* The same program started from a development environment (every setting
\* at its default) or from a production one (SECRET_KEY replaced, as its
\* default value asks).
ProductionSecret == "production-secret"
Profiles ==
    [gateway_base_url : {"http://localhost:8080"},
     secret_key : {DefaultSecret, ProductionSecret},
     cookie_name : {"admin_token"},
     cookie_max_age : CookieMaxAges]
Production == settings.secret_key # DefaultSecret

InitProfiles ==
    /\ settings \in Profiles
    /\ now = 0
    /\ jar = NoCookie
    /\ known = NoValue
    /\ req = [s \in Slots |-> IdleRequest]
    /\ calls = [s \in Slots |-> <<>>]
    /\ resp = [s \in Slots |-> NoResponse]
    /\ codec = IdleCodec

SpecProfiles == InitProfiles /\ [][Next]_vars

\* ------------------------------------------------- requests in parallel
\* Two requests in flight at once, each suspended at its own upstream call
\* and resumed in any order. The requests are sent with no cookie, a
\* garbage cookie or the issued one; the upstream answers a login with a
\* token or a refusal, and a protected call with data, a refusal or a
\* timeout.
ConcCookies ==
    {NoCookie, Cookie("admin_token", GarbageValue)}
    \cup (IF known.k = "signed" THEN {Cookie("admin_token", known)} ELSE {})
ConcLoginReplies ==
    { Reply("", 200, Obj(JStr("jwtA"), Missing, "")),
      Reply("", 200, Obj(JStr("jwtB"), Missing, "")),
      Reply("", 401, Obj(Missing, JStr("upstream detail"), "")) }
ConcReplies ==
    { Reply("", 200, Obj(Missing, Missing, "data")),
      Reply("", 401, Obj(Missing, JStr("upstream detail"), "")),
      Reply("ReadTimeout", 0, NoneBody) }
ConcQueries == { <<Omitted, Omitted>>, <<Omitted, Given(101)>> }

NextConc ==
    \/ \E s \in Slots :
          \/ login_call(s) /\ req'[s].cookie = NoCookie
                           /\ req'[s].creds.password = "correct"
          \/ login_return(s) /\ req'[s].reply \in ConcLoginReplies
          \/ logout(s) /\ req'[s].cookie = NoCookie
          \/ me_call(s) /\ req'[s].cookie \in ConcCookies
          \/ me_return(s) /\ req'[s].reply \in ConcReplies
          \/ list_api_keys_call(s) /\ req'[s].cookie \in ConcCookies
                                   /\ <<req'[s].page, req'[s].page_size>> \in ConcQueries
          \/ list_api_keys_return(s) /\ req'[s].reply \in ConcReplies
          \/ Deliver(s)
    \/ Tick

\* The cookie name is the one the AuthGuard reads.
InitConc == Init /\ settings.cookie_name = "admin_token"

SpecConc == InitConc /\ [][NextConc]_vars

\* ------------------------------------------------------- the codec alone
\* sign_token and verify_token applied to drawn tokens, with the signed
\* value altered in transit by a party that does not hold the secret.
Sign ==
    /\ codec.phase = "start"
    /\ \E token \in TokenValues :
          codec' = Codec("signed", token, sign_token(token), sign_token(token),
                         now, Verified("none", Missing))
    /\ UNCHANGED <<settings, now, jar, known, req, calls, resp>>

Alter ==
    /\ codec.phase = "signed"
    /\ \E v \in Altered(codec.presented) \cup {EmptyValue, GarbageValue} :
          codec' = [codec EXCEPT !.presented = v]
    /\ UNCHANGED <<settings, now, jar, known, req, calls, resp>>

\* Input strings of verify_token that sign_token did not produce here: the
\* empty string, garbage, a value cut before its tag, a value signed under
\* another key, values signed under the secret by another producer (for
\* another purpose, or over a payload that is not JSON text), and a
\* well-formed value.
OtherSalts == {"other-purpose", "itsdangerous"}
InputStrings ==
    { EmptyValue, GarbageValue,
      Value("truncated", Dumps(JStr("jwtA")), now, base64_encode(NoMac)),
      Serialize(AttackerKey, Salt, JStr("jwtA"), now) }
    \cup { Serialize(settings.secret_key, salt, JStr("jwtA"), now) : salt \in OtherSalts }
    \cup { Serialize(settings.secret_key, Salt, JStr("jwtA"), now),
           Value("signed", <<"{">>, now,
                 base64_encode(Mac(settings.secret_key, Salt, <<"{">>, now))) }

Present ==
    /\ codec.phase = "start"
    /\ \E v \in InputStrings :
          codec' = Codec("input", Missing, NoValue, v, now, Verified("none", Missing))
    /\ UNCHANGED <<settings, now, jar, known, req, calls, resp>>

Verify ==
    /\ codec.phase \in {"signed", "verified", "input", "returned"}
    /\ codec' = [codec EXCEPT !.phase = IF codec.phase \in {"signed", "verified"}
                                        THEN "verified" ELSE "returned",
                              !.at = now,
                              !.result = verify_token(codec.presented,
                                                      settings.cookie_max_age)]
    /\ UNCHANGED <<settings, now, jar, known, req, calls, resp>>

NextCodec == Sign \/ Alter \/ Present \/ Verify \/ Tick

SpecCodec == Init /\ [][NextCodec]_vars

\* ================================================================== claims
Done(s) == req[s].pc = "done"
\* The value the AuthGuard reads from the request in slot s.
Presented(s) == CookieParam(req[s].cookie, "admin_token")
\* The request in slot s carries no session cookie, under the name the
\* guard reads or under the configured one.
NoSessionCookie(s) ==
    /\ CookieParam(req[s].cookie, "admin_token") = NoValue
    /\ CookieParam(req[s].cookie, settings.cookie_name) = NoValue

\* C1: a protected request without a session cookie is answered 401 "Not
\* authenticated" and causes no upstream call.
C1_NoCookieRejected ==
    \A s \in Slots :
        (req[s].route \in ProtectedRoutes /\ NoSessionCookie(s)) =>
            /\ Done(s)
            /\ resp[s].status = 401
            /\ resp[s].detail = JStr("Not authenticated")
            /\ calls[s] = <<>>

C1_Witness ==
    \E s \in Slots :
        /\ Done(s) /\ req[s].route = "list_api_keys" /\ req[s].cookie = NoCookie
        /\ ValidPage(req[s].page) /\ ValidPageSize(req[s].page_size)
        /\ resp[s].status = 401 /\ known.k = "signed"

\* The signature of a presented value does not match, or its age at the
\* request's arrival exceeds the configured max-age.
FailsVerification(v, at) ==
    \/ v.k = "garbage"
    \/ /\ v.k = "signed"
       /\ \/ v.sig.mac # Mac(settings.secret_key, Salt, v.payload, v.ts)
          \/ at - v.ts > settings.cookie_max_age

\* C2: a protected request whose session cookie is present but fails
\* verification (signature mismatch or age beyond max-age) is answered 401
\* "Invalid or expired token" and causes no upstream call.
C2_BadCookieRejected ==
    \A s \in Slots :
        (req[s].route \in ProtectedRoutes
         /\ FailsVerification(Presented(s), req[s].at)) =>
            /\ Done(s)
            /\ resp[s].status = 401
            /\ resp[s].detail = JStr("Invalid or expired token")
            /\ calls[s] = <<>>

\* An expired, correctly signed cookie carrying a usable token is rejected.
C2_Witness ==
    \E s \in Slots :
        /\ Done(s) /\ req[s].route = "get_billing"
        /\ Presented(s) = known /\ known.k = "signed"
        /\ known.payload = Dumps(JStr("jwtA"))
        /\ req[s].at - known.ts > settings.cookie_max_age
        /\ resp[s].detail = JStr("Invalid or expired token")

\* The upstream answered the login in slot s with 200 and an object that
\* has a token field.
LoginAccepted(s) ==
    /\ Done(s) /\ req[s].route = "login"
    /\ req[s].reply.exc = "" /\ req[s].reply.status = 200
    /\ req[s].reply.body.k = "obj" /\ req[s].reply.body.token # Missing

\* C3: a login the upstream answers with 200 and a token returns
\* {success: true} and sets a cookie whose value verify_token decodes,
\* within max-age, to exactly that token.
C3_LoginSetsCookie ==
    \A s \in Slots :
        LoginAccepted(s) =>
            /\ resp[s].status = 200
            /\ resp[s].body = SuccessBody
            /\ resp[s].set_cookie.op = "set"
            /\ (now - resp[s].set_cookie.value.ts <= settings.cookie_max_age =>
                  verify_token(resp[s].set_cookie.value, settings.cookie_max_age)
                      = Verified("ok", req[s].reply.body.token))

C3_Witness ==
    \E s \in Slots :
        /\ LoginAccepted(s)
        /\ req[s].reply.body.token = JStr("jwtA")
        /\ resp[s].set_cookie.op = "set"
        /\ verify_token(resp[s].set_cookie.value, settings.cookie_max_age)
              = Verified("ok", JStr("jwtA"))

\* The upstream replied (no exception) to the request in slot s.
Replied(s) == Done(s) /\ req[s].reply # NoReply /\ req[s].reply.exc = ""
\* The parsed body is an object with a token field.
TokenField(data) == data.k = "obj" /\ data.token # Missing

\* C4: a login the upstream answers with a status other than 200, or with
\* a body that is absent or has no token field, returns 401 "Invalid
\* credentials" and sets no cookie.
C4_LoginFailureFlattened ==
    \A s \in Slots :
        (Replied(s) /\ req[s].route = "login"
         /\ (req[s].reply.status # 200
             \/ ~TokenField(ParseJson(req[s].reply.body)))) =>
            /\ resp[s].status = 401
            /\ resp[s].detail = JStr("Invalid credentials")
            /\ resp[s].set_cookie.op = "none"

\* The detail a proxy route owes the caller for a non-200 upstream reply.
ExpectedDetail(route, data) ==
    IF data.k = "obj" /\ data.detail # Missing THEN data.detail
    ELSE JStr(Fallback(route))

\* C5: on a protected route, a non-200 upstream reply of any body shape is
\* answered with the upstream's status and the upstream's detail, or the
\* route's fallback message when there is none.
C5_StatusRelayed ==
    \A s \in Slots :
        (Replied(s) /\ req[s].route \in ProtectedRoutes
         /\ req[s].reply.status # 200) =>
            /\ resp[s].status = req[s].reply.status
            /\ resp[s].detail = ExpectedDetail(req[s].route,
                                               ParseJson(req[s].reply.body))

\* C6: on a protected route, a 200 upstream reply is answered 200 with
\* exactly the parsed upstream body.
C6_BodyVerbatim ==
    \A s \in Slots :
        (Replied(s) /\ req[s].route \in ProtectedRoutes
         /\ req[s].reply.status = 200) =>
            /\ resp[s].status = 200
            /\ resp[s].body = ParseJson(req[s].reply.body)
            /\ resp[s].detail = Missing

C6_Witness ==
    \E s \in Slots :
        /\ Replied(s) /\ req[s].route = "get_billing"
        /\ req[s].reply.status = 200
        /\ req[s].reply.body = Obj(Missing, Missing, "data")
        /\ resp[s].body = Obj(Missing, Missing, "data")

\* The query of the request in slot s breaks the pagination rule.
BadQuery(s) ==
    /\ req[s].route \in Paginated
    /\ \/ Query(req[s].page, 1) < 1
       \/ Query(req[s].page_size, 20) < 1
       \/ Query(req[s].page_size, 20) > 100

\* C7 as stated: a listing request with page < 1 or page_size outside
\* 1..100 is answered with a validation error and causes no upstream call,
\* authenticated or not.
C7_AlwaysValidationError ==
    \A s \in Slots :
        BadQuery(s) =>
            /\ Done(s) /\ calls[s] = <<>>
            /\ resp[s].status = 422

\* C7 amended: such a request is rejected locally and causes no upstream
\* call, authenticated or not; the rejection is the validation error when
\* the AuthGuard accepted the request and the AuthGuard's 401 otherwise.
C7_RejectedLocally ==
    \A s \in Slots :
        BadQuery(s) =>
            /\ Done(s) /\ calls[s] = <<>> /\ req[s].reply = NoReply
            /\ IF req[s].token # Missing
               THEN resp[s].status = 422
               ELSE resp[s].status = 401

C7_Witness ==
    \E s \in Slots :
        /\ BadQuery(s) /\ Done(s) /\ req[s].route = "list_api_keys"
        /\ req[s].page_size = Given(101)
        /\ req[s].token = JStr("jwtA")
        /\ resp[s].status = 422

\* C8: when the upstream call times out or fails at the network level, the
\* caller is answered with a handled 502/503-class response.
C8_UpstreamUnavailable ==
    \A s \in Slots :
        (Done(s) /\ req[s].reply.exc # "") =>
            /\ resp[s].status \in {502, 503, 504}
            /\ resp[s].exc = ""

\* The codec verified a value after signing one.
Checked == codec.phase = "verified"
Elapsed == codec.at - codec.signed.ts

\* C9: round trip: a signed token, presented unaltered at most max_age
\* after signing, verifies to that token.
C9_RoundTrip ==
    (Checked /\ codec.presented = codec.signed
     /\ Elapsed <= settings.cookie_max_age) =>
        codec.result = Verified("ok", codec.token)

C9_Witness ==
    /\ Checked /\ codec.presented = codec.signed
    /\ codec.token = JStr("jwtA")
    /\ Elapsed = 1 /\ settings.cookie_max_age = 1
    /\ codec.result = Verified("ok", JStr("jwtA"))

\* C10 as stated: every alteration of a signed value makes verify_token
\* fail.
C10_AnyAlterationFails ==
    (Checked /\ codec.presented # codec.signed) => codec.result.r = "none"

\* The presented value differs from the signed one in its payload part, its
\* timestamp part or the bytes of its tag.
AlteredContent ==
    \/ codec.presented.k # "signed"
    \/ codec.presented.payload # codec.signed.payload
    \/ codec.presented.ts # codec.signed.ts
    \/ base64_decode(codec.presented.sig) # base64_decode(codec.signed.sig)

\* C10 amended: an alteration of the payload part, of the timestamp part or
\* of the bytes of the tag makes verify_token fail, and verify_token never
\* returns a payload other than the one signed; an alteration confined to
\* the unused trailing bits of the tag's text does not make it fail.
C10_TamperDetected ==
    (Checked /\ codec.presented # codec.signed) =>
        /\ AlteredContent => codec.result.r = "none"
        /\ codec.result.r # "none" => codec.result = Verified("ok", codec.token)

C10_Witness ==
    /\ Checked
    /\ codec.presented.k = "signed"
    /\ codec.presented.payload # codec.signed.payload
    /\ codec.presented.ts = codec.signed.ts
    /\ codec.presented.sig = codec.signed.sig
    /\ Elapsed <= settings.cookie_max_age
    /\ codec.result.r = "none"

\* The presented value carries the tag sign_token gave it (its text may
\* differ in the unused bits).
CorrectlySigned ==
    /\ codec.presented.k = "signed"
    /\ codec.presented.payload = codec.signed.payload
    /\ codec.presented.ts = codec.signed.ts
    /\ base64_decode(codec.presented.sig) = base64_decode(codec.signed.sig)

\* C11: a correctly signed value is rejected as expired exactly when its
\* age exceeds max_age: accepted at age = max_age (also when max_age = 0),
\* rejected at age = max_age + 1.
C11_ExpiryStrict ==
    (Checked /\ CorrectlySigned) =>
        IF Elapsed > settings.cookie_max_age
        THEN codec.result = Verified("none", Missing)
        ELSE codec.result = Verified("ok", codec.token)

C11_Witness ==
    /\ Checked /\ CorrectlySigned
    /\ codec.token = JStr("jwtB")
    /\ Elapsed = settings.cookie_max_age + 1
    /\ codec.result = Verified("none", Missing)

\* verify_token returned for some input.
Judged == codec.phase \in {"verified", "returned"}

\* C12: for every input string verify_token returns the payload or None
\* and never raises.
C12_Total == Judged => codec.result.r \in {"ok", "none"}

\* C13: logout always returns {success: true} with the instruction that
\* clears the session cookie and makes no upstream call, whatever cookie
\* the request carries; every logout gives this same result.
C13_LogoutUnconditional ==
    \A s \in Slots :
        req[s].route = "logout" =>
            /\ Done(s)
            /\ resp[s].status = 200
            /\ resp[s].body = SuccessBody
            /\ resp[s].set_cookie.op = "delete"
            /\ resp[s].set_cookie.key = settings.cookie_name
            /\ calls[s] = <<>>
            /\ req[s].reply = NoReply

\* A logout with no prior session and no cookie.
C13_Witness ==
    \E s \in Slots :
        /\ Done(s) /\ req[s].route = "logout"
        /\ req[s].cookie = NoCookie /\ known = NoValue /\ jar = NoCookie
        /\ resp[s].body = SuccessBody /\ resp[s].set_cookie.op = "delete"

\* The response mentions the value t in its detail or as a token field.
Mentions(response, t) == response.detail = t \/ response.body.token = t
\* The response in slot s is an error produced by login or by the AuthGuard.
LocalError(s) ==
    /\ Done(s) /\ resp[s].status # 200
    /\ \/ req[s].route = "login"
       \/ req[s].route \in ProtectedRoutes /\ req[s].reply = NoReply

\* C14: every successful login response has the body {success: true},
\* whatever token the upstream issued, and no error response of login or
\* of the AuthGuard contains a token.
C14_TokenNotEchoed ==
    \A s \in Slots :
        /\ (Done(s) /\ req[s].route = "login" /\ resp[s].status = 200) =>
              resp[s].body = SuccessBody
        /\ LocalError(s) =>
              /\ resp[s].body = NoneBody
              /\ \A t \in TokenValues : ~Mentions(resp[s], t)

\* A second successful login, with another token than the first.
C14_Witness ==
    \E s \in Slots :
        /\ LoginAccepted(s)
        /\ req[s].reply.body.token = JStr("jwtB")
        /\ known.k = "signed" /\ known.payload = Dumps(JStr("jwtA"))
        /\ resp[s].status = 200 /\ resp[s].body = SuccessBody

\* C15: a protected request that sends back exactly the cookie a login
\* set (under the configured cookie name), within max-age, is not
\* answered "Not authenticated".
C15_CookieNameRead ==
    \A s \in Slots :
        (req[s].route \in ProtectedRoutes
         /\ known.k = "signed"
         /\ req[s].cookie = Cookie(settings.cookie_name, known)
         /\ req[s].at - known.ts <= settings.cookie_max_age) =>
            ~(Done(s) /\ resp[s].detail = JStr("Not authenticated"))

\* The last change of the browser's cookie was a logout that followed a
\* login: the jar is empty and the value the login issued is known.
LoggedOut == jar = NoCookie /\ known.k = "signed"
\* The request in slot s presents the value the last login issued, no
\* older than max-age.
PresentsIssued(s) ==
    /\ req[s].route \in ProtectedRoutes
    /\ known.k = "signed" /\ Presented(s) = known
    /\ req[s].at - known.ts <= settings.cookie_max_age
\* The AuthGuard yielded the token t to the request in slot s.
Authenticated(s, t) ==
    /\ req[s].token = t
    /\ ~(Done(s) /\ req[s].reply = NoReply /\ resp[s].status = 401)

\* C16: after login then logout, a protected request presenting the value
\* the login issued, of age at most max-age, is still Authenticated.
C16_LogoutDoesNotRevoke ==
    \A s \in Slots :
        (LoggedOut /\ PresentsIssued(s)) =>
            Authenticated(s, Loads(known.payload))

\* C18: no request causes more than one upstream call: a request suspended
\* at its upstream step, or answered from an upstream reply or failure,
\* made exactly one call; a request answered locally made none.
C18_SingleAttempt ==
    \A s \in Slots :
        /\ Len(calls[s]) <= 1
        /\ req[s].pc = "await" => Len(calls[s]) = 1
        /\ (Done(s) /\ req[s].reply # NoReply) => Len(calls[s]) = 1
        /\ (Done(s) /\ req[s].reply = NoReply) => calls[s] = <<>>

\* A non-200 reply and a timeout each ended a request after one call.
C18_Witness ==
    \E s \in Slots :
        /\ Done(s) /\ req[s].route = "list_models"
        /\ req[s].reply \in Failures \/ req[s].reply.status = 404
        /\ Len(calls[s]) = 1 /\ resp[s].status \in {404, 500}

\* C19: the login call to /admin/login carries no Authorization header;
\* every upstream call of me, list_api_keys, list_models and get_billing
\* carries Authorization: Bearer <token> with the token the AuthGuard
\* yielded from the presented cookie.
C19_BearerAttached ==
    \A s \in Slots :
        calls[s] # <<>> =>
            IF req[s].route = "login"
            THEN calls[s][1].authorization = <<>>
            ELSE /\ req[s].route \in ProtectedRoutes
                 /\ req[s].token = Loads(Presented(s).payload)
                 /\ req[s].token.k = "str"
                 /\ calls[s][1].authorization = <<"Bearer", req[s].token.v>>

C19_Witness ==
    \E s \in Slots :
        /\ req[s].pc = "await" /\ req[s].route = "list_api_keys"
        /\ Presented(s) = known /\ known.payload = Dumps(JStr("jwtB"))
        /\ calls[s][1].authorization = <<"Bearer", "jwtB">>

\* C20: after a login that returned {success: true}, a protected request
\* presenting the resulting cookie value within max-age is Authenticated
\* with the token the upstream issued, whatever JSON value that token is,
\* and its upstream call bears that token.
C20_IssuedCookieUsable ==
    \A s \in Slots :
        PresentsIssued(s) =>
            /\ Authenticated(s, Loads(known.payload))
            /\ calls[s] # <<>> =>
                  /\ Len(calls[s][1].authorization) = 2
                  /\ calls[s][1].authorization[2] = req[s].token.v

\* The response the request r gets when served alone: a function of its
\* own cookie, inputs and upstream reply (and of the settings and the clock).
AloneResponse(r) ==
    IF r.route = "logout"
    THEN Returned(SuccessBody, delete_cookie(settings.cookie_name, TRUE, FALSE, "strict"))
    ELSE IF r.reply # NoReply
    THEN IF r.route = "login" THEN login_result(gateway_result(r.reply))
         ELSE proxy_result(gateway_result(r.reply), Fallback(r.route))
    ELSE LET guard == get_current_admin_token(r.cookie) IN
         IF guard.r # "ok" THEN guard.response ELSE ValidationError
\* The request in slot s can take its next step now, whatever the other
\* requests are doing.
NotWaiting(s) ==
    CASE req[s].pc = "idle" -> ENABLED login_call(s) /\ ENABLED me_call(s)
      [] req[s].pc = "await" ->
            IF req[s].route = "login" THEN ENABLED login_return(s)
            ELSE ENABLED protected_return(s, req[s].route)
      [] OTHER -> ENABLED Deliver(s)
\* A step that answers the request in slot s gives it the response it
\* gets alone, and a step of slot s leaves the other requests as they were.
StepAlone(s) ==
    /\ (resp'[s] # resp[s] /\ resp'[s] # NoResponse) =>
          /\ req'[s].pc = "done"
          /\ resp'[s] = AloneResponse(req'[s])
    /\ req'[s] # req[s] =>
          \A t \in Slots \ {s} :
              req'[t] = req[t] /\ resp'[t] = resp[t] /\ calls'[t] = calls[t]

\* C17: under every interleaving of the requests in flight, each response
\* is the one the request gets alone with the same cookie, inputs and
\* upstream reply; no request waits for another; no step modifies the
\* Settings.
C17_Independent ==
    /\ [](\A s \in Slots : NotWaiting(s))
    /\ [][settings' = settings /\ \A s \in Slots : StepAlone(s)]_vars

\* A request that arrived while a login was suspended at its upstream call
\* has been answered from its own upstream reply, the login still waiting.
C17_Witness ==
    /\ req[1].pc = "await" /\ req[1].route = "login"
    /\ req[2].pc = "done" /\ req[2].route = "me"
    /\ req[2].at > req[1].at
    /\ Presented(2) = known /\ known.payload = Dumps(JStr("jwtA"))
    /\ req[2].reply = Reply("", 200, Obj(Missing, Missing, "data"))
    /\ resp[2] = Returned(Obj(Missing, Missing, "data"), NoSetCookie)

\* The request in slot s has made its upstream call on a protected route.
Forwarded(s) == req[s].route \in ProtectedRoutes /\ calls[s] # <<>>
\* The value v was signed by sign_token over the token t.
SignedHere(v, t) ==
    /\ v.k = "signed" /\ v.payload = Dumps(t)
    /\ base64_decode(v.sig) = Mac(settings.secret_key, Salt, Dumps(t), v.ts)
\* Every token forwarded upstream is the token of the value the last login
\* issued, and the request presented that value.
ForwardedWasIssued ==
    \A s \in Slots :
        Forwarded(s) =>
            /\ SignedHere(known, req[s].token)
            /\ SignedHere(Presented(s), req[s].token)
            /\ Presented(s).ts = known.ts
            /\ calls[s][1].authorization = <<"Bearer", req[s].token.v>>
\* A value becomes the issued one only when a login the upstream answered
\* with 200 and a token is delivered, and it is that token signed here.
IssuedAtLogin ==
    known' # known =>
        \E s \in Slots :
            /\ LoginAccepted(s)
            /\ known' = resp[s].set_cookie.value
            /\ SignedHere(known', req[s].reply.body.token)

\* C21: clients do not hold the secret; every bearer token sent upstream
\* on a protected route is a token the upstream returned in a 200 reply to
\* the login and the BFF signed then; no value a client makes up or
\* alters gets its token forwarded.
C21_Provenance == []ForwardedWasIssued /\ [][IssuedAtLogin]_vars

\* The issued token forwarded, one second after it was issued.
C21_Witness ==
    \E s \in Slots :
        /\ req[s].pc = "await" /\ req[s].route = "get_billing"
        /\ Presented(s) = known /\ known.payload = Dumps(JStr("jwtA"))
        /\ req[s].at = known.ts + 1
        /\ calls[s][1].authorization = <<"Bearer", "jwtA">>

\* No response of a protected route sets or clears a cookie; set comes
\* only from login and delete only from logout.
CookieOps ==
    \A s \in Slots :
        /\ req[s].route \in ProtectedRoutes => resp[s].set_cookie = NoSetCookie
        /\ resp[s].set_cookie.op = "set" => req[s].route = "login"
        /\ resp[s].set_cookie.op = "delete" => req[s].route = "logout"
\* Delivering the response of a protected route leaves the browser's
\* cookie as it was.
CookieKept ==
    \A s \in Slots :
        (Done(s) /\ req[s].route \in ProtectedRoutes /\ req'[s].pc = "idle") =>
            jar' = jar /\ known' = known

\* C22: only login sets the session cookie and only logout clears it; me,
\* list_api_keys, list_models and get_billing never set or clear it on
\* any outcome, so the browser's cookie is unchanged by their responses.
C22_CookieFrame == []CookieOps /\ [][CookieKept]_vars

\* An upstream 401 on a protected route, the browser holding its cookie.
C22_Witness ==
    \E s \in Slots :
        /\ Replied(s) /\ req[s].route = "me" /\ req[s].reply.status = 401
        /\ resp[s].status = 401 /\ resp[s].set_cookie = NoSetCookie
        /\ jar = Cookie("admin_token", known) /\ Presented(s) = known

\* C23: every cookie login sets has HttpOnly = true, SameSite = Strict and
\* Max-Age equal to the configured max-age (the value the AuthGuard
\* verifies with), and its Secure attribute follows the deployment
\* profile: set in production, not set in development.
C23_CookieAttributes ==
    \A s \in Slots :
        (req[s].route = "login" /\ resp[s].set_cookie.op = "set") =>
            /\ resp[s].set_cookie.httponly = TRUE
            /\ resp[s].set_cookie.samesite = "strict"
            /\ resp[s].set_cookie.max_age = settings.cookie_max_age
            /\ resp[s].set_cookie.secure = Production

\* The value v carries a tag made with the configured secret over its own
\* payload and timestamp, under another context label than "admin-cookie".
OtherPurpose(v) ==
    /\ v.k = "signed"
    /\ base64_decode(v.sig).key = settings.secret_key
    /\ base64_decode(v.sig).salt # Salt
    /\ base64_decode(v.sig).payload = v.payload
    /\ base64_decode(v.sig).ts = v.ts

\* C24: sign_token signs under the label "admin-cookie" and verify_token
\* accepts its values; a value signed with the same secret under another
\* label is rejected by verify_token (None), and the AuthGuard answers it
\* 401 "Invalid or expired token".
C24_PurposeScoped ==
    /\ codec.phase \in {"signed", "verified"} =>
          base64_decode(codec.signed.sig).salt = "admin-cookie"
    /\ (Checked /\ codec.presented = codec.signed
        /\ Elapsed <= settings.cookie_max_age) => codec.result.r = "ok"
    /\ (Judged /\ OtherPurpose(codec.presented)) =>
          /\ codec.result = Verified("none", Missing)
          /\ get_current_admin_token(Cookie("admin_token", codec.presented))
                = Guard("rejected", Missing,
                        HTTPException(401, JStr("Invalid or expired token")))

\* A fresh value signed with the secret for another purpose was rejected.
C24_Witness ==
    /\ codec.phase = "returned" /\ OtherPurpose(codec.presented)
    /\ base64_decode(codec.presented.sig).salt = "other-purpose"
    /\ codec.at = codec.presented.ts
    /\ codec.result = Verified("none", Missing)

\* The upstream's body is empty or is not JSON text.
Unparsable(body) == body.k \in {"empty", "invalid"}

\* C25: an upstream reply with an empty or non-JSON body does not make
\* gateway_request fail, it yields (status, None); login then answers 401
\* "Invalid credentials" without a cookie, and a protected route answers
\* a non-200 status with that status and its fallback detail.
C25_UnparsableBody ==
    \A s \in Slots :
        (Replied(s) /\ Unparsable(req[s].reply.body)) =>
            /\ gateway_result(req[s].reply) = Result("", req[s].reply.status, NoneBody)
            /\ resp[s].exc = ""
            /\ req[s].route = "login" =>
                  /\ resp[s].status = 401
                  /\ resp[s].detail = JStr("Invalid credentials")
                  /\ resp[s].set_cookie = NoSetCookie
            /\ (req[s].route \in ProtectedRoutes /\ req[s].reply.status # 200) =>
                  /\ resp[s].status = req[s].reply.status
                  /\ resp[s].detail = JStr(Fallback(req[s].route))

\* A login the upstream answered 200 with a page that is not JSON.
C25_Witness ==
    \E s \in Slots :
        /\ Replied(s) /\ req[s].route = "login"
        /\ req[s].reply.status = 200 /\ req[s].reply.body.k = "invalid"
        /\ resp[s].status = 401 /\ resp[s].detail = JStr("Invalid credentials")

\* The upstream endpoint of each route.
Endpoint(route) ==
    CASE route = "login" -> <<"POST", "/admin/login">>
      [] route = "me" -> <<"GET", "/admin/me">>
      [] route = "list_api_keys" -> <<"GET", "/admin/keys">>
      [] route = "list_models" -> <<"GET", "/admin/models">>
      [] OTHER -> <<"GET", "/admin/billing">>

\* C26: each route calls its own upstream endpoint with the fixed method;
\* login sends {email, password}; the listing routes send page and
\* page_size as given (1 and 20 when omitted); the other routes send no
\* query parameters.
C26_RouteTable ==
    \A s \in Slots :
        calls[s] # <<>> =>
            LET call == calls[s][1] IN
            /\ req[s].route \in ProtectedRoutes \cup {"login"}
            /\ call.method = Endpoint(req[s].route)[1]
            /\ call.url = <<settings.gateway_base_url, Endpoint(req[s].route)[2]>>
            /\ call.json = IF req[s].route = "login" THEN req[s].creds
                           ELSE NoCredentials
            /\ call.params =
                  IF req[s].route \in {"list_api_keys", "list_models"}
                  THEN [given |-> TRUE,
                        page |-> IF req[s].page.given THEN req[s].page.n ELSE 1,
                        page_size |-> IF req[s].page_size.given
                                      THEN req[s].page_size.n ELSE 20]
                  ELSE NoParams

\* list_models called with page = 2 and page_size = 100.
C26_Witness ==
    \E s \in Slots :
        /\ req[s].pc = "await" /\ req[s].route = "list_models"
        /\ req[s].page = Given(2) /\ req[s].page_size = Given(100)
        /\ calls[s][1].url = <<settings.gateway_base_url, "/admin/models">>
        /\ calls[s][1].params = Params(2, 100)

====
